---- MODULE Spec2Model ----
(***************************************************************************)
(* NodeModal (src/features/modals/NodeModal/index.tsx): the modal that     *)
(* shows the selected graph node, lets its scalar fields be edited and     *)
(* writes the edits back into the JSON document store.                     *)
(*                                                                         *)
(* JavaScript strings are TLA+ strings, handled character by character     *)
(* (Len, SubSeq, \o).  JavaScript values are tagged records:               *)
(*   [t |-> "number", n |-> 7]     [t |-> "number", inf |-> TRUE]          *)
(*   [t |-> "string", s |-> "x"]   [t |-> "boolean", b |-> TRUE]           *)
(*   [t |-> "null"]                [t |-> "undefined"]                     *)
(*   [t |-> "object", m |-> members]   members: sequence of [k, v] in      *)
(*                                     insertion order                     *)
(*   [t |-> "array", e |-> elements, x |-> members]   x: the non-index     *)
(*                                     properties set on the array object  *)
(***************************************************************************)
EXTENDS Integers, Sequences, FiniteSets, TLC

VARIABLES
    json,          \* useJson store: the canonical JSON text
    contents,      \* useFile store: the text shown in the left-side editor
    selectedNode,  \* useGraph store: the selected node, or NoNode
    opened,        \* the modal's `opened` prop
    editMode,      \* useState(false)
    formValues,    \* useState({}): members [k, v], v a string
    last,          \* handleSave, handleCancel or the deselection when it ran last,
                   \* with the state it started from
    nSaves,        \* the number of Save clicks so far
    call           \* the last direct call of a pure helper, with its result

vars == <<json, contents, selectedNode, opened, editMode, formValues, last,
          nSaves, call>>

(***************************************************************************)
(* Bounds of the exploration.                                              *)
(***************************************************************************)
MaxSaves == 1
MaxPathLen == 2

-----------------------------------------------------------------------------
(***************************************************************************)
(* JavaScript values.                                                      *)
(***************************************************************************)
JNull == [t |-> "null"]
Undefined == [t |-> "undefined"]
JInf == [t |-> "number", inf |-> TRUE]
JNum(n) == [t |-> "number", n |-> n]
JStr(s) == [t |-> "string", s |-> s]
JBool(b) == [t |-> "boolean", b |-> b]
JObj(members) == [t |-> "object", m |-> members]
JArr(elems) == [t |-> "array", e |-> elems, x |-> <<>>]

\* value == null  (null or undefined)
IsNullish(v) == v.t \in {"null", "undefined"}
\* parent && typeof parent === "object"
IsObjectLike(v) == v.t \in {"object", "array"}

\* a path segment: an object key or an array index
Key(k) == [k |-> k]
Idx(i) == [i |-> i]
IsIdx(seg) == "i" \in DOMAIN seg

Digits == <<"0", "1", "2", "3", "4", "5", "6", "7", "8", "9">>
IsDigit(c) == \E d \in 1..10 : Digits[d] = c
DigitVal(c) == (CHOOSE d \in 1..10 : Digits[d] = c) - 1

RECURSIVE NumStr(_)
\* String(n) of a non-negative integer
NumStr(n) == IF n < 10 THEN Digits[n + 1] ELSE NumStr(n \div 10) \o Digits[(n % 10) + 1]

\* the property name a path segment is used as
NameOf(seg) == IF IsIdx(seg) THEN NumStr(seg.i) ELSE seg.k

Ch(s, i) == IF i >= 1 /\ i <= Len(s) THEN SubSeq(s, i, i) ELSE ""

RECURSIVE AllDigits(_, _)
AllDigits(s, i) == i > Len(s) \/ (IsDigit(Ch(s, i)) /\ AllDigits(s, i + 1))

RECURSIVE DigitsVal(_, _, _)
DigitsVal(s, i, acc) ==
    IF i > Len(s) \/ ~IsDigit(Ch(s, i)) THEN acc
    ELSE DigitsVal(s, i + 1, acc * 10 + DigitVal(Ch(s, i)))

NaN == [t |-> "number", nan |-> TRUE]

\* Number(value) on the texts of the model: the empty text is 0, a run of
\* digits its value, "Infinity" infinite, anything else NaN
Number(s) ==
    IF s = "" THEN JNum(0)
    ELSE IF AllDigits(s, 1) THEN JNum(DigitsVal(s, 1, 0))
    ELSE IF s = "Infinity" THEN JInf
    ELSE NaN

\* String(value) / `${value}` of a scalar
String(v) ==
    CASE v.t = "string" -> v.s
      [] v.t = "boolean" -> (IF v.b THEN "true" ELSE "false")
      [] v.t = "null" -> "null"
      [] v.t = "undefined" -> "undefined"
      [] v.t = "number" ->
            IF "n" \in DOMAIN v THEN NumStr(v.n)
            ELSE IF "inf" \in DOMAIN v THEN "Infinity" ELSE "NaN"

(***************************************************************************)
(* Plain objects: members in insertion order.                              *)
(***************************************************************************)
HasMember(members, k) == \E i \in 1..Len(members) : members[i].k = k
MemberIndex(members, k) == CHOOSE i \in 1..Len(members) : members[i].k = k
GetMember(members, k) ==
    IF HasMember(members, k) THEN members[MemberIndex(members, k)].v ELSE Undefined
\* obj[k] = v
SetMember(members, k, v) ==
    IF HasMember(members, k)
    THEN [members EXCEPT ![MemberIndex(members, k)] = [k |-> k, v |-> v]]
    ELSE Append(members, [k |-> k, v |-> v])

-----------------------------------------------------------------------------
(***************************************************************************)
(* JSON.stringify(value, null, 2) and JSON.parse(text).                    *)
(***************************************************************************)
Quote(s) == "\"" \o s \o "\""

RECURSIVE Ser(_, _), SerMembers(_, _, _), SerElems(_, _, _)
Ser(v, ind) ==
    CASE v.t = "object" ->
            IF Len(v.m) = 0 THEN "{}"
            ELSE "{\n" \o SerMembers(v.m, 1, ind \o "  ") \o "\n" \o ind \o "}"
      [] v.t = "array" ->
            IF Len(v.e) = 0 THEN "[]"
            ELSE "[\n" \o SerElems(v.e, 1, ind \o "  ") \o "\n" \o ind \o "]"
      [] v.t = "string" -> Quote(v.s)
      [] v.t = "number" -> (IF "n" \in DOMAIN v THEN NumStr(v.n) ELSE "null")
      [] v.t = "boolean" -> String(v)
      [] v.t = "null" -> "null"
      [] v.t = "undefined" -> "null"    \* a hole of an array

SerMembers(members, i, ind) ==
    ind \o Quote(members[i].k) \o ": " \o Ser(members[i].v, ind)
        \o (IF i = Len(members) THEN "" ELSE ",\n" \o SerMembers(members, i + 1, ind))

SerElems(elems, i, ind) ==
    ind \o Ser(elems[i], ind)
        \o (IF i = Len(elems) THEN "" ELSE ",\n" \o SerElems(elems, i + 1, ind))

JSONstringify(v) == Ser(v, "")

SyntaxError == [ok |-> FALSE]
Parsed(v, next) == [ok |-> TRUE, v |-> v, next |-> next]

IsWs(c) == c \in {" ", "\n", "\t", "\r"}

RECURSIVE SkipWs(_, _)
SkipWs(s, i) == IF IsWs(Ch(s, i)) THEN SkipWs(s, i + 1) ELSE i

RECURSIVE StringEnd(_, _)
\* the index of the closing quote of the string literal whose body starts
\* at i, or 0 when the text ends first (the model's strings need no escapes)
StringEnd(s, i) ==
    IF i > Len(s) THEN 0
    ELSE IF Ch(s, i) = "\"" THEN i
    ELSE IF Ch(s, i) \in {"\\", "\n"} THEN 0
    ELSE StringEnd(s, i + 1)

RECURSIVE NumberEnd(_, _)
NumberEnd(s, i) == IF IsDigit(Ch(s, i)) THEN NumberEnd(s, i + 1) ELSE i

StartsWith(s, i, word) ==
    i + Len(word) - 1 <= Len(s) /\ SubSeq(s, i, i + Len(word) - 1) = word

RECURSIVE ParseValue(_, _), ParseMembers(_, _, _), ParseElems(_, _, _)
\* the JSON value that starts at (or after white space at) position i
ParseValue(s, i0) ==
    LET i == SkipWs(s, i0)
        c == Ch(s, i)
    IN  IF c = "{" THEN
            IF Ch(s, SkipWs(s, i + 1)) = "}" THEN Parsed(JObj(<<>>), SkipWs(s, i + 1) + 1)
            ELSE ParseMembers(s, i + 1, <<>>)
        ELSE IF c = "[" THEN
            IF Ch(s, SkipWs(s, i + 1)) = "]" THEN Parsed(JArr(<<>>), SkipWs(s, i + 1) + 1)
            ELSE ParseElems(s, i + 1, <<>>)
        ELSE IF c = "\"" THEN
            LET e == StringEnd(s, i + 1)
            IN  IF e = 0 THEN SyntaxError
                ELSE Parsed(JStr(IF e = i + 1 THEN "" ELSE SubSeq(s, i + 1, e - 1)), e + 1)
        ELSE IF IsDigit(c) THEN
            LET e == NumberEnd(s, i)
            IN  IF c = "0" /\ e > i + 1 THEN SyntaxError
                ELSE Parsed(JNum(DigitsVal(s, i, 0)), e)
        ELSE IF StartsWith(s, i, "true") THEN Parsed(JBool(TRUE), i + 4)
        ELSE IF StartsWith(s, i, "false") THEN Parsed(JBool(FALSE), i + 5)
        ELSE IF StartsWith(s, i, "null") THEN Parsed(JNull, i + 4)
        ELSE SyntaxError

ParseMembers(s, i0, acc) ==
    LET i == SkipWs(s, i0)
        e == StringEnd(s, i + 1)
    IN  IF Ch(s, i) # "\"" \/ e = 0 THEN SyntaxError
        ELSE
            LET k == IF e = i + 1 THEN "" ELSE SubSeq(s, i + 1, e - 1)
                colon == SkipWs(s, e + 1)
            IN  IF Ch(s, colon) # ":" THEN SyntaxError
                ELSE
                    LET r == ParseValue(s, colon + 1)
                    IN  IF ~r.ok THEN SyntaxError
                        ELSE
                            LET j == SkipWs(s, r.next)
                                acc2 == SetMember(acc, k, r.v)
                            IN  IF Ch(s, j) = "," THEN ParseMembers(s, j + 1, acc2)
                                ELSE IF Ch(s, j) = "}" THEN Parsed(JObj(acc2), j + 1)
                                ELSE SyntaxError

ParseElems(s, i0, acc) ==
    LET r == ParseValue(s, i0)
    IN  IF ~r.ok THEN SyntaxError
        ELSE
            LET j == SkipWs(s, r.next)
                acc2 == Append(acc, r.v)
            IN  IF Ch(s, j) = "," THEN ParseElems(s, j + 1, acc2)
                ELSE IF Ch(s, j) = "]" THEN Parsed(JArr(acc2), j + 1)
                ELSE SyntaxError

\* JSON.parse(text): [ok |-> FALSE] stands for the SyntaxError it throws
JSONparse(s) ==
    LET r == ParseValue(s, 1)
    IN  IF r.ok /\ SkipWs(s, r.next) = Len(s) + 1 THEN r ELSE SyntaxError

-----------------------------------------------------------------------------
(***************************************************************************)
(* Nodes and rows (NodeData of types/graph).  A row with a key is          *)
(* [key, value, type]; a row whose key is null is [value, type].  An       *)
(* optional argument is Undefined or Some(x).                              *)
(***************************************************************************)
NoNode == [none |-> TRUE]
Some(x) == [some |-> x]
IsAbsent(o) == "t" \in DOMAIN o
NoType == "undefined"

Row(k, v, type) == [key |-> k, value |-> v, type |-> type]
KeylessRow(v, type) == [value |-> v, type |-> type]
\* row.key is truthy: neither null nor the empty string
KeyTruthy(row) == "key" \in DOMAIN row /\ row.key # ""

\* nodeData?.text ?? []
TextOf(node) == IF node = NoNode THEN <<>> ELSE node.text
\* nodeData?.path
PathOf(node) == IF node = NoNode THEN Undefined ELSE Some(node.path)

RECURSIVE normalizeRows_keepsCompound(_, _, _)
\* normalizeRows without the test of the row's type
normalizeRows_keepsCompound(nodeRows, i, obj) ==
    IF i > Len(nodeRows) THEN obj
    ELSE LET row == nodeRows[i]
         IN  normalizeRows_keepsCompound(nodeRows, i + 1,
                IF KeyTruthy(row) THEN SetMember(obj, row.key, row.value) ELSE obj)

RECURSIVE normalizeRows(_, _, _)
\* the forEach of normalizeNodeData: obj[row.key] = row.value
normalizeRows(nodeRows, i, obj) ==
    IF i > Len(nodeRows) THEN obj
    ELSE LET row == nodeRows[i]
         IN  normalizeRows(nodeRows, i + 1,
                IF row.type # "array" /\ row.type # "object" /\ KeyTruthy(row)
                THEN SetMember(obj, row.key, row.value) ELSE obj)

normalizeNodeData(nodeRows) ==
    IF IsAbsent(nodeRows) \/ Len(nodeRows.some) = 0 THEN "{}"
    ELSE IF Len(nodeRows.some) = 1 /\ ~KeyTruthy(nodeRows.some[1])
         THEN String(nodeRows.some[1].value)
    ELSE JSONstringify(JObj(normalizeRows(nodeRows.some, 1, <<>>)))

RECURSIVE Join(_, _, _)
\* segments.join(sep)
Join(segments, i, sep) ==
    IF i > Len(segments) THEN ""
    ELSE segments[i] \o (IF i = Len(segments) THEN "" ELSE sep \o Join(segments, i + 1, sep))

\* jsonPathToString that quotes every segment, indices included
jsonPathToString_quotesAll(path) ==
    IF IsAbsent(path) \/ Len(path.some) = 0 THEN "$"
    ELSE LET segments == [i \in 1..Len(path.some) |-> Quote(NameOf(path.some[i]))]
         IN  "$[" \o Join(segments, 1, "][") \o "]"

jsonPathToString(path) ==
    IF IsAbsent(path) \/ Len(path.some) = 0 THEN "$"
    ELSE LET segments == [i \in 1..Len(path.some) |->
                            IF IsIdx(path.some[i]) THEN NumStr(path.some[i].i)
                            ELSE Quote(path.some[i].k)]
         IN  "$[" \o Join(segments, 1, "][") \o "]"

RECURSIVE useEffectInitial_allKeyed(_, _, _)
\* useEffectInitial without the test of the row's type
useEffectInitial_allKeyed(rows, i, initial) ==
    IF i > Len(rows) THEN initial
    ELSE LET row == rows[i]
         IN  useEffectInitial_allKeyed(rows, i + 1,
                IF KeyTruthy(row)
                THEN SetMember(initial, row.key,
                               IF ~IsNullish(row.value) THEN String(row.value) ELSE "")
                ELSE initial)

RECURSIVE useEffectInitial(_, _, _)
\* the forEach of the node-change effect
useEffectInitial(rows, i, initial) ==
    IF i > Len(rows) THEN initial
    ELSE LET row == rows[i]
         IN  useEffectInitial(rows, i + 1,
                IF KeyTruthy(row) /\ row.type # "array" /\ row.type # "object"
                THEN SetMember(initial, row.key,
                               IF ~IsNullish(row.value) THEN String(row.value) ELSE "")
                ELSE initial)

RECURSIVE handleCancelInitial_nullText(_, _, _)
\* handleCancelInitial without the test for null: String(null) is "null"
handleCancelInitial_nullText(rows, i, initial) ==
    IF i > Len(rows) THEN initial
    ELSE LET row == rows[i]
         IN  handleCancelInitial_nullText(rows, i + 1,
                IF KeyTruthy(row) /\ row.type # "array" /\ row.type # "object"
                THEN SetMember(initial, row.key, String(row.value))
                ELSE initial)

RECURSIVE handleCancelInitial(_, _, _)
\* the forEach of handleCancel
handleCancelInitial(rows, i, initial) ==
    IF i > Len(rows) THEN initial
    ELSE LET row == rows[i]
         IN  handleCancelInitial(rows, i + 1,
                IF KeyTruthy(row) /\ row.type # "array" /\ row.type # "object"
                THEN SetMember(initial, row.key,
                               IF ~IsNullish(row.value) THEN String(row.value) ELSE "")
                ELSE initial)

(***************************************************************************)
(* Property access and assignment, cur[seg] and target[key] = value.       *)
(***************************************************************************)
\* the array index a property name denotes, or -1
IndexOfName(k) ==
    IF k # "" /\ AllDigits(k, 1) /\ NumStr(DigitsVal(k, 1, 0)) = k
    THEN DigitsVal(k, 1, 0) ELSE -1

\* cur[seg] of a value that is neither null nor undefined
GetProp(cur, seg) ==
    LET name == NameOf(seg)
        idx == IndexOfName(name)
    IN  CASE cur.t = "object" -> GetMember(cur.m, name)
          [] cur.t = "array" ->
                IF idx >= 0 THEN (IF idx < Len(cur.e) THEN cur.e[idx + 1] ELSE Undefined)
                ELSE IF name = "length" THEN JNum(Len(cur.e))
                ELSE GetMember(cur.x, name)
          [] cur.t = "string" ->
                IF idx >= 0 THEN (IF idx < Len(cur.s) THEN JStr(Ch(cur.s, idx + 1)) ELSE Undefined)
                ELSE IF name = "length" THEN JNum(Len(cur.s))
                ELSE Undefined
          [] OTHER -> Undefined

TypeError == [ok |-> FALSE]
Done(v) == [ok |-> TRUE, v |-> v]

\* target[key] = value in strict mode (an ES module): a TypeError on null,
\* undefined and on a primitive
SetProp(target, key, value) ==
    LET idx == IndexOfName(key)
    IN  CASE target.t = "object" -> Done(JObj(SetMember(target.m, key, value)))
          [] target.t = "array" ->
                IF idx >= 0 THEN
                    Done([target EXCEPT !.e =
                            [i \in 1..(IF idx < Len(target.e) THEN Len(target.e) ELSE idx + 1) |->
                                IF i = idx + 1 THEN value
                                ELSE IF i <= Len(target.e) THEN target.e[i] ELSE Undefined]])
                ELSE Done([target EXCEPT !.x = SetMember(target.x, key, value)])
          [] OTHER -> TypeError

RECURSIVE setValueAtPathLoop(_, _, _)
setValueAtPathLoop(cur, path, i) ==
    IF i > Len(path) THEN cur
    ELSE IF IsNullish(cur) THEN Undefined
    ELSE setValueAtPathLoop(GetProp(cur, path[i]), path, i + 1)

\* despite its name it only reads: the value the path leads to
setValueAtPath(root, path) ==
    IF IsAbsent(path) \/ Len(path.some) = 0 THEN root
    ELSE setValueAtPathLoop(root, path.some, 1)

RECURSIVE AssignAt(_, _, _, _, _)
\* parent[key] = newVal, parent being the object or array that
\* setValueAtPath(root, path) returned: the document with that member set
AssignAt(root, path, i, key, newVal) ==
    IF i > Len(path) THEN SetProp(root, key, newVal).v
    ELSE LET seg == path[i]
             child == AssignAt(GetProp(root, seg), path, i + 1, key, newVal)
         IN  IF root.t = "object" THEN JObj(SetMember(root.m, NameOf(seg), child))
             ELSE IF IndexOfName(NameOf(seg)) >= 0
                  THEN [root EXCEPT !.e[IndexOfName(NameOf(seg)) + 1] = child]
                  ELSE [root EXCEPT !.x = SetMember(root.x, NameOf(seg), child)]

coerceValue(value, type) ==
    IF type = "number" THEN
        LET n == Number(value)
        IN  IF "nan" \in DOMAIN n THEN JStr(value) ELSE n
    ELSE IF type = "boolean" /\ value = "true" THEN JBool(TRUE)
    ELSE IF type = "boolean" /\ value = "false" THEN JBool(FALSE)
    ELSE IF value = "null" THEN JNull
    ELSE JStr(value)

\* RowType that never finds the row
RowType_missing(rows, key) == NoType

\* nodeData?.text.find(r => r.key === key)?.type
RowType(rows, key) ==
    IF \E i \in 1..Len(rows) : "key" \in DOMAIN rows[i] /\ rows[i].key = key
    THEN rows[CHOOSE i \in 1..Len(rows) :
                /\ "key" \in DOMAIN rows[i] /\ rows[i].key = key
                /\ \A j \in 1..(i - 1) : ~("key" \in DOMAIN rows[j] /\ rows[j].key = key)].type
    ELSE NoType

RECURSIVE handleSaveKeys(_, _, _, _, _)
\* Object.keys(formValues).forEach(...) of handleSave: the document after the
\* assignments, or the TypeError one of them throws
handleSaveKeys(parsed, node, form, i, parentIsObject) ==
    IF i > Len(form) THEN Done(parsed)
    ELSE LET key == form[i].k
             newVal == coerceValue(form[i].v, RowType(TextOf(node), key))
             next == IF parentIsObject
                     THEN Done(AssignAt(parsed, PathOf(node).some, 1, key, newVal))
                     ELSE SetProp(parsed, key, newVal)
         IN  IF ~next.ok THEN TypeError
             ELSE handleSaveKeys(next.v, node, form, i + 1, parentIsObject)

-----------------------------------------------------------------------------
(***************************************************************************)
(* The graph parser (GraphView/lib/jsonParser): one node for every object, *)
(* array and array element of the document, each with its rows and its     *)
(* path from the root.  A scalar member of an object is a row of the       *)
(* object's node; an object or array member is a row of type "object" or   *)
(* "array" and a node of its own.                                          *)
(***************************************************************************)
Node(text, path) == [text |-> text, path |-> path]

ValueRow(v) ==
    CASE v.t = "object" -> KeylessRow(JStr("{" \o NumStr(Len(v.m)) \o " keys}"), "object")
      [] v.t = "array" -> KeylessRow(JStr("[" \o NumStr(Len(v.e)) \o " items]"), "array")
      [] OTHER -> KeylessRow(v, v.t)

NodeRows(v) ==
    CASE v.t = "object" ->
            [i \in 1..Len(v.m) |->
                Row(v.m[i].k, ValueRow(v.m[i].v).value, ValueRow(v.m[i].v).type)]
      [] v.t = "array" -> [i \in 1..Len(v.e) |-> ValueRow(v.e[i])]
      [] OTHER -> <<ValueRow(v)>>

RECURSIVE Walk(_, _), WalkMembers(_, _, _), WalkElems(_, _, _)
Walk(v, path) ==
    <<Node(NodeRows(v), path)>> \o
        (CASE v.t = "object" -> WalkMembers(v.m, 1, path)
           [] v.t = "array" -> WalkElems(v.e, 1, path)
           [] OTHER -> <<>>)

WalkMembers(members, i, path) ==
    IF i > Len(members) THEN <<>>
    ELSE (IF IsObjectLike(members[i].v)
          THEN Walk(members[i].v, Append(path, Key(members[i].k))) ELSE <<>>)
         \o WalkMembers(members, i + 1, path)

WalkElems(elems, i, path) ==
    IF i > Len(elems) THEN <<>>
    ELSE Walk(elems[i], Append(path, Idx(i - 1))) \o WalkElems(elems, i + 1, path)

\* parser(jsonStr): the nodes of the graph, or the error it throws
parser(text) ==
    LET r == JSONparse(text)
    IN  IF r.ok THEN [ok |-> TRUE, nodes |-> Walk(r.v, <<>>)] ELSE [ok |-> FALSE]

\* the nodes of the graph store while the document store holds text
GraphNodes(text) ==
    LET graph == parser(text)
    IN  IF graph.ok THEN {graph.nodes[i] : i \in 1..Len(graph.nodes)} ELSE {}

\* FindByPath that takes the first node of the graph whatever its path
FindByPath_first(nodes, path) ==
    IF IsAbsent(path) \/ Len(nodes) = 0 THEN Undefined ELSE Some(nodes[1])

\* FindByPath that falls back to the first node when no path matches
FindByPath_orFirst(nodes, path) ==
    IF IsAbsent(path) \/ Len(nodes) = 0 THEN Undefined
    ELSE IF \E i \in 1..Len(nodes) : nodes[i].path = path.some
         THEN Some(nodes[CHOOSE i \in 1..Len(nodes) : nodes[i].path = path.some])
         ELSE Some(nodes[1])

\* graph.nodes.find(n => JSON.stringify(n.path) === JSON.stringify(nodeData?.path))
FindByPath(nodes, path) ==
    IF IsAbsent(path) THEN Undefined
    ELSE IF \E i \in 1..Len(nodes) : nodes[i].path = path.some
         THEN Some(nodes[CHOOSE i \in 1..Len(nodes) :
                            /\ nodes[i].path = path.some
                            /\ \A j \in 1..(i - 1) : nodes[j].path # path.some])
         ELSE Undefined

-----------------------------------------------------------------------------
(***************************************************************************)
(* The documents the stores are loaded with, and the texts typed.          *)
(***************************************************************************)
DocTexts ==
    { "{\"a\":7,\"b\":null}",
      "{\"a\":\"null\",\"b\":{\"a\":7}}",
      "[{\"a\":true},3]",
      "7",
      "{\"a\":",
      "" }

InputTexts == {"", "abc", "Infinity"}

NoCall == [fn |-> "none"]

Snapshot ==
    [json |-> json, contents |-> contents, selectedNode |-> selectedNode,
     opened |-> opened, editMode |-> editMode, formValues |-> formValues]

Init ==
    /\ json \in DocTexts
    /\ contents = json
    /\ selectedNode = NoNode
    /\ opened = FALSE
    /\ editMode = FALSE
    /\ formValues = <<>>
    /\ last = [op |-> "other"]
    /\ nSaves = 0
    /\ call = NoCall

\* the node-change effect, run after the store's selected node became node
useEffect(node) ==
    IF node = NoNode
    THEN /\ formValues' = <<>>
         /\ editMode' = FALSE
    ELSE /\ formValues' = useEffectInitial(node.text, 1, <<>>)
         /\ UNCHANGED editMode

\* useGraph.setSelectedNode(node) from the graph view, node a node of the
\* graph of the current document
setSelectedNode(node) ==
    /\ selectedNode' = node
    /\ useEffect(node)
    /\ last' = [op |-> "other"]
    /\ UNCHANGED <<json, contents, opened, nSaves, call>>

Deselect ==
    /\ selectedNode # NoNode
    /\ selectedNode' = NoNode
    /\ useEffect(NoNode)
    /\ last' = [op |-> "deselect", wasEditing |-> editMode]
    /\ UNCHANGED <<json, contents, opened, nSaves, call>>

\* useJson.setJson(text) from outside the modal
setJson(text) ==
    /\ json' = text
    /\ last' = [op |-> "other"]
    /\ UNCHANGED <<contents, selectedNode, opened, editMode, formValues, nSaves, call>>

Open ==
    /\ ~opened
    /\ opened' = TRUE
    /\ last' = [op |-> "other"]
    /\ UNCHANGED <<json, contents, selectedNode, editMode, formValues, nSaves, call>>

onClose ==
    /\ opened
    /\ opened' = FALSE
    /\ last' = [op |-> "other"]
    /\ UNCHANGED <<json, contents, selectedNode, editMode, formValues, nSaves, call>>

\* the Edit button
Edit ==
    /\ opened /\ ~editMode
    /\ editMode' = TRUE
    /\ last' = [op |-> "other"]
    /\ UNCHANGED <<json, contents, selectedNode, opened, formValues, nSaves, call>>

\* onChange of the TextInput of a row
onChange(row, value) ==
    /\ opened /\ editMode
    /\ KeyTruthy(row) /\ row.type # "array" /\ row.type # "object"
    /\ formValues' = SetMember(formValues, row.key, value)
    /\ last' = [op |-> "other"]
    /\ UNCHANGED <<json, contents, selectedNode, opened, editMode, nSaves, call>>

handleCancel ==
    /\ opened /\ editMode
    /\ formValues' = handleCancelInitial(TextOf(selectedNode), 1, <<>>)
    /\ editMode' = FALSE
    /\ last' = [op |-> "handleCancel", pre |-> Snapshot]
    /\ UNCHANGED <<json, contents, selectedNode, opened, nSaves, call>>

\* handleSaveText that takes a text JSON.parse rejects for the empty object
handleSaveText_lenient(raw, node, form) ==
    LET parsed == IF raw # "" /\ JSONparse(raw).ok THEN JSONparse(raw)
                  ELSE Parsed(JObj(<<>>), 1)
        parent == setValueAtPath(parsed.v, PathOf(node))
        res == handleSaveKeys(parsed.v, node, form, 1, IsObjectLike(parent))
    IN  IF ~res.ok THEN [ok |-> FALSE]
        ELSE [ok |-> TRUE, jsonStr |-> JSONstringify(res.v)]

\* what handleSave computes before it touches a store: the text to write,
\* or the error that sends it to the outer catch
handleSaveText(raw, node, form) ==
    LET parsed == IF raw # "" THEN JSONparse(raw) ELSE Parsed(JObj(<<>>), 1)
    IN  IF ~parsed.ok THEN [ok |-> FALSE]
        ELSE LET parent == setValueAtPath(parsed.v, PathOf(node))
                 res == handleSaveKeys(parsed.v, node, form, 1, IsObjectLike(parent))
             IN  IF ~res.ok THEN [ok |-> FALSE]
                 ELSE [ok |-> TRUE, jsonStr |-> JSONstringify(res.v)]

\* parserThrows: whether parser(jsonStr) throws
handleSave ==
    /\ opened /\ editMode
    /\ nSaves < MaxSaves
    /\ nSaves' = nSaves + 1
    /\ LET text == handleSaveText(json, selectedNode, formValues)
       IN  IF ~text.ok
           THEN /\ last' = [op |-> "handleSave", pre |-> Snapshot, saved |-> FALSE,
                            parserThrew |-> FALSE]
                /\ UNCHANGED <<json, contents, selectedNode, editMode, formValues>>
           ELSE \E parserThrows \in BOOLEAN :
                LET graph == IF parserThrows THEN [ok |-> FALSE] ELSE parser(text.jsonStr)
                    matched == IF graph.ok THEN FindByPath(graph.nodes, PathOf(selectedNode))
                               ELSE Undefined
                IN  /\ json' = text.jsonStr
                    /\ contents' = text.jsonStr
                    /\ IF IsAbsent(matched)
                       THEN UNCHANGED <<selectedNode, formValues>>
                       ELSE /\ selectedNode' = matched.some
                            /\ formValues' = useEffectInitial(matched.some.text, 1, <<>>)
                    /\ editMode' = FALSE
                    /\ last' = [op |-> "handleSave", pre |-> Snapshot, saved |-> TRUE,
                                parserThrew |-> parserThrows]
    /\ UNCHANGED <<opened, call>>

\* a click on a node of the graph
SelectNode == \E node \in GraphNodes(json) : setSelectedNode(node)

\* typing into the TextInput of one of the rows shown
Input ==
    \E i \in 1..Len(TextOf(selectedNode)) : \E value \in InputTexts :
        onChange(TextOf(selectedNode)[i], value)

Next ==
    \/ SelectNode
    \/ Deselect
    \/ \E text \in DocTexts : setJson(text)
    \/ Open
    \/ onClose
    \/ Edit
    \/ Input
    \/ handleCancel
    \/ handleSave

Spec == Init /\ [][Next]_vars

-----------------------------------------------------------------------------
(***************************************************************************)
(* The pure helpers called directly on sampled arguments.                  *)
(***************************************************************************)
MaxRows == 2

SampleKeys == {"a", "b", ""}
SampleValues == {JNum(7), JStr("x"), JBool(FALSE), JNull}
SampleRows ==
    {Row(k, v, v.t) : k \in SampleKeys, v \in SampleValues}
        \cup {Row(k, JStr("{1 keys}"), "object") : k \in SampleKeys}
        \cup {Row(k, JStr("[2 items]"), "array") : k \in SampleKeys}
        \cup {KeylessRow(v, v.t) : v \in SampleValues}
        \cup {KeylessRow(JStr("{1 keys}"), "object"), KeylessRow(JStr("[2 items]"), "array")}

\* the keys of an object are distinct, and so are the keys of a node's rows
DistinctKeys(rows) ==
    \A i, j \in 1..Len(rows) :
        (i # j /\ "key" \in DOMAIN rows[i] /\ "key" \in DOMAIN rows[j])
            => rows[i].key # rows[j].key

SampleRowLists ==
    {rows \in UNION {[1..n -> SampleRows] : n \in 0..MaxRows} : DistinctKeys(rows)}

SampleSegments == {Key("a"), Key("b"), Idx(0), Idx(12)}
SamplePaths == UNION {[1..n -> SampleSegments] : n \in 0..MaxPathLen}

SampleTexts == {"", "0", "7", "12", "true", "false", "null", "abc", "Infinity"}
SampleTypes == {"number", "boolean", "string", "null", NoType}

PureInit ==
    /\ json = "{}"
    /\ contents = "{}"
    /\ selectedNode = NoNode
    /\ opened = FALSE
    /\ editMode = FALSE
    /\ formValues = <<>>
    /\ last = [op |-> "other"]
    /\ nSaves = 0
    /\ call = NoCall

PureFrame ==
    UNCHANGED <<json, contents, selectedNode, opened, editMode, formValues, last,
                nSaves>>

CallNormalizeNodeData ==
    /\ call = NoCall
    /\ \E arg \in {Undefined} \cup {Some(rows) : rows \in SampleRowLists} :
            call' = [fn |-> "normalizeNodeData", nodeRows |-> arg,
                     result |-> normalizeNodeData(arg)]
    /\ PureFrame

CallJsonPathToString ==
    /\ call = NoCall
    /\ \E arg \in {Undefined} \cup {Some(path) : path \in SamplePaths} :
            call' = [fn |-> "jsonPathToString", path |-> arg,
                     result |-> jsonPathToString(arg)]
    /\ PureFrame

CallCoerceValue ==
    /\ call = NoCall
    /\ \E value \in SampleTexts : \E type \in SampleTypes :
            call' = [fn |-> "coerceValue", value |-> value, type |-> type,
                     result |-> coerceValue(value, type)]
    /\ PureFrame

PureNext ==
    \/ CallNormalizeNodeData
    \/ CallJsonPathToString
    \/ CallCoerceValue

PureSpec == PureInit /\ [][PureNext]_vars

-----------------------------------------------------------------------------
(***************************************************************************)
(* Properties.                                                             *)
(***************************************************************************)
\* a row that has a key, which is neither an array nor an object
ScalarField(row) == KeyTruthy(row) /\ row.type \notin {"array", "object"}
ScalarFields(rows) == SelectSeq(rows, ScalarField)
ScalarKeys(rows) == {rows[i].key : i \in {j \in 1..Len(rows) : ScalarField(rows[j])}}
FormKeys(form) == {form[i].k : i \in 1..Len(form)}
RowWithKey(rows, k) == rows[CHOOSE i \in 1..Len(rows) : KeyTruthy(rows[i]) /\ rows[i].key = k]

\* C4: normalizeNodeData returns "{}" for absent or empty rows, the value as
\* a string for exactly one row without a key (a key being a non-empty
\* string), and otherwise the JSON text of the flat object that maps the
\* key of every keyed row that is neither an array nor an object to the
\* row's value, with no key of an array or object row.
C4Expected(nodeRows) ==
    IF IsAbsent(nodeRows) \/ nodeRows.some = <<>> THEN "{}"
    ELSE IF Len(nodeRows.some) = 1 /\ ~KeyTruthy(nodeRows.some[1])
         THEN String(nodeRows.some[1].value)
    ELSE LET fields == ScalarFields(nodeRows.some)
         IN  JSONstringify(JObj([i \in 1..Len(fields) |->
                                    [k |-> fields[i].key, v |-> fields[i].value]]))
C4_NormalizeShowsScalarFields ==
    call.fn = "normalizeNodeData" => call.result = C4Expected(call.nodeRows)
C4_Witness ==
    /\ call.fn = "normalizeNodeData"
    /\ ~IsAbsent(call.nodeRows)
    /\ Len(call.nodeRows.some) = 2
    /\ ScalarField(call.nodeRows.some[1])
    /\ KeyTruthy(call.nodeRows.some[2]) /\ call.nodeRows.some[2].type = "object"
    /\ call.result = "{\n  \"a\": 7\n}"

RECURSIVE C5Brackets(_, _)
C5Brackets(path, i) ==
    IF i > Len(path) THEN ""
    ELSE "[" \o (IF IsIdx(path[i]) THEN NumStr(path[i].i) ELSE "\"" \o path[i].k \o "\"")
             \o "]" \o C5Brackets(path, i + 1)
\* C5: jsonPathToString returns "$" for an absent or empty path and otherwise
\* "$" followed by every segment in path order in brackets, an index bare
\* and a key inside double quotes.
C5_PathString ==
    call.fn = "jsonPathToString" =>
        call.result = IF IsAbsent(call.path) THEN "$"
                      ELSE "$" \o C5Brackets(call.path.some, 1)
C5_Witness ==
    /\ call.fn = "jsonPathToString"
    /\ call.path = Some(<<Key("a"), Idx(12)>>)
    /\ call.result = "$[\"a\"][12]"

\* the text is a numeral: it denotes a number
C6IsNumeral(value) == (value # "" /\ AllDigits(value, 1)) \/ value = "Infinity"
C6Claimed(value, type) ==
    IF type = "number" THEN (IF C6IsNumeral(value) THEN Number(value) ELSE JStr(value))
    ELSE IF type = "boolean" /\ value \in {"true", "false"} THEN JBool(value = "true")
    ELSE IF value = "null" THEN JNull
    ELSE JStr(value)
\* C6: coerceValue returns, for a row of type "number", the number the text
\* denotes or the text unchanged when the text is not a number; for a row
\* of type "boolean", true for "true" and false for "false"; null for the
\* text "null"; the text unchanged in every other case.
C6_CoerceValue ==
    call.fn = "coerceValue" => call.result = C6Claimed(call.value, call.type)


-----------------------------------------------------------------------------
\* the document handleSave starts from: the empty text stands for {}
PreDoc == IF last.pre.json = "" THEN JObj(<<>>) ELSE JSONparse(last.pre.json).v
PrePath == last.pre.selectedNode.path

RECURSIVE ValueAt(_, _, _)
\* the value a path leads to in a document: a key into an object, an index
\* into an array
ValueAt(doc, path, i) ==
    IF i > Len(path) THEN doc
    ELSE IF doc.t = "object" /\ ~IsIdx(path[i]) /\ HasMember(doc.m, path[i].k)
         THEN ValueAt(GetMember(doc.m, path[i].k), path, i + 1)
    ELSE IF doc.t = "array" /\ IsIdx(path[i]) /\ path[i].i < Len(doc.e)
         THEN ValueAt(doc.e[path[i].i + 1], path, i + 1)
    ELSE Undefined

RECURSIVE ReplaceAt(_, _, _, _)
\* the document with the value at the path replaced, all else as it was
ReplaceAt(doc, path, i, new) ==
    IF i > Len(path) THEN new
    ELSE IF doc.t = "object"
         THEN JObj([j \in 1..Len(doc.m) |->
                    IF doc.m[j].k = path[i].k
                    THEN [k |-> doc.m[j].k, v |-> ReplaceAt(doc.m[j].v, path, i + 1, new)]
                    ELSE doc.m[j]])
         ELSE [doc EXCEPT !.e = [j \in 1..Len(doc.e) |->
                    IF j = path[i].i + 1 THEN ReplaceAt(doc.e[j], path, i + 1, new)
                    ELSE doc.e[j]]]

\* the type of the node row with key k, NoType when there is none
TypeOfRow(rows, k) ==
    IF \E i \in 1..Len(rows) : "key" \in DOMAIN rows[i] /\ rows[i].key = k
    THEN rows[CHOOSE i \in 1..Len(rows) : "key" \in DOMAIN rows[i] /\ rows[i].key = k].type
    ELSE NoType

\* the members a Save of the form values writes
Edits(node, form) ==
    [i \in 1..Len(form) |->
        [k |-> form[i].k, v |-> coerceValue(form[i].v, TypeOfRow(node.text, form[i].k))]]

\* an object or array with the members of edits replaced (a new member is
\* added after the others; on an array it is a property beside the elements)
Override(target, edits) ==
    LET merge(members) ==
            [j \in 1..Len(members) |->
                IF HasMember(edits, members[j].k)
                THEN [k |-> members[j].k, v |-> GetMember(edits, members[j].k)]
                ELSE members[j]]
            \o SelectSeq(edits, LAMBDA e : ~HasMember(members, e.k))
    IN  IF target.t = "object" THEN JObj(merge(target.m))
        ELSE [target EXCEPT !.x = merge(target.x)]

C1Case ==
    /\ last.op = "handleSave"
    /\ last.pre.selectedNode # NoNode
    /\ JSONparse(last.pre.json).ok
    /\ IsObjectLike(ValueAt(PreDoc, PrePath, 1))
\* C1: when the document text parses and the selected node's path leads to
\* an object or array, Save passes to setJson the serialisation of the old
\* document in which every member named by a key of the form values, of the
\* value at the path, is replaced by coerceValue(formValues[k], type of the
\* node row with key k), and all else is as before.
C1_SaveWritesEdits ==
    C1Case =>
        /\ last.saved
        /\ json = JSONstringify(
                    ReplaceAt(PreDoc, PrePath, 1,
                              Override(ValueAt(PreDoc, PrePath, 1),
                                       Edits(last.pre.selectedNode, last.pre.formValues))))
C1_Witness ==
    /\ C1Case
    /\ Len(PrePath) > 0
    /\ ValueAt(PreDoc, PrePath, 1).t = "object"
    /\ Len(last.pre.formValues) > 0
    /\ JSONparse(json).v # PreDoc

\* Save wrote the document and the re-parse found a node with the path of
\* the node selected before
C2Case ==
    /\ last.op = "handleSave"
    /\ last.saved /\ ~last.parserThrew
    /\ last.pre.selectedNode # NoNode
    /\ \E n \in GraphNodes(json) : n.path = PrePath
C2Reselected ==
    /\ selectedNode \in GraphNodes(json)
    /\ selectedNode.path = PrePath
\* the row of the selected node with the key of every form value shows value
C2RowsShow(shown(_)) ==
    \A i \in 1..Len(last.pre.formValues) :
        LET e == Edits(last.pre.selectedNode, last.pre.formValues)[i]
        IN  /\ \E j \in 1..Len(selectedNode.text) :
                    KeyTruthy(selectedNode.text[j]) /\ selectedNode.text[j].key = e.k
            /\ RowWithKey(selectedNode.text, e.k).value = shown(e.v)
Same(v) == v
\* what JSON text holds of a value: a non-finite number is written as null
AsJson(v) == IF v = JInf THEN JNull ELSE v
\* C2 as stated: after every successful Save the selected node is the node of
\* the graph of the new text with the path of the node selected before, and
\* its rows show the values just saved.
C2_Original == C2Case => (C2Reselected /\ C2RowsShow(Same))
\* C2 as amended: after every successful Save the selected node is the node of
\* the graph of the new text with the path of the node selected before; when
\* that path led to an object in the old document, its rows show the values
\* just saved as the JSON text holds them (a non-finite number as null).
C2_NodeStaysSelected ==
    C2Case =>
        /\ C2Reselected
        /\ ValueAt(PreDoc, PrePath, 1).t = "object" => C2RowsShow(AsJson)
C2_Witness ==
    /\ C2Case
    /\ ValueAt(PreDoc, PrePath, 1).t = "object"
    /\ Len(PrePath) > 0
    /\ selectedNode # last.pre.selectedNode
    /\ \E i \in 1..Len(last.pre.formValues) :
            Edits(last.pre.selectedNode, last.pre.formValues)[i].v = JInf

C3Unchanged ==
    /\ json = last.pre.json
    /\ contents = last.pre.contents
    /\ selectedNode = last.pre.selectedNode
    /\ opened /\ editMode
    /\ formValues = last.pre.formValues
\* C3 as stated: when the document text fails to parse as JSON, Save changes
\* neither store nor the selected node, and the modal stays open in edit
\* mode with the form values as typed.
C3_Original ==
    (last.op = "handleSave" /\ ~JSONparse(last.pre.json).ok) => C3Unchanged
\* C3 as amended: the same, when the document text is not empty and fails to
\* parse as JSON (the empty text is saved over as the empty object).
C3_ParseFailureChangesNothing ==
    (last.op = "handleSave" /\ last.pre.json # "" /\ ~JSONparse(last.pre.json).ok)
        => C3Unchanged
C3_Witness ==
    /\ last.op = "handleSave"
    /\ last.pre.json # "" /\ ~JSONparse(last.pre.json).ok
    /\ selectedNode # NoNode
    /\ Len(formValues) = 2
    /\ formValues[1].v = "abc"

\* the string form of the keyed scalar rows of a node, "" for null
FormOf(node) ==
    LET fields == ScalarFields(TextOf(node))
    IN  [i \in 1..Len(fields) |->
            [k |-> fields[i].key,
             v |-> IF IsNullish(fields[i].value) THEN "" ELSE String(fields[i].value)]]

\* C7: Cancel sets the form values back to the string form of the selected
\* node's keyed scalar rows ("" for null), sets edit mode to false, and
\* leaves the document store, the file-contents store and the selected node
\* unchanged.
C7_CancelReverts ==
    last.op = "handleCancel" =>
        /\ formValues = FormOf(selectedNode)
        /\ ~editMode
        /\ json = last.pre.json
        /\ contents = last.pre.contents
        /\ selectedNode = last.pre.selectedNode
C7_Witness ==
    /\ last.op = "handleCancel"
    /\ Len(formValues) = 2
    /\ \A i \in 1..2 : last.pre.formValues[i].v # formValues[i].v
    /\ \E i \in 1..2 : RowWithKey(selectedNode.text, formValues[i].k).value = JNull

\* Save wrote the document, and the parser failed or its graph has no node
\* with the path of the node selected before
C8Case ==
    /\ last.op = "handleSave"
    /\ last.saved
    /\ \/ last.parserThrew
       \/ \A n \in GraphNodes(json) : Some(n.path) # PathOf(last.pre.selectedNode)
\* C8: a failure of the graph parser during Save, or no node of the new graph
\* having the edited node's path, does not undo the save: both stores hold
\* the new JSON text, edit mode is false, and the selected node is as before.
C8_ParserFailureKeepsSave ==
    C8Case =>
        /\ json = handleSaveText(last.pre.json, last.pre.selectedNode,
                                 last.pre.formValues).jsonStr
        /\ contents = json
        /\ ~editMode
        /\ selectedNode = last.pre.selectedNode
C8_Witness ==
    /\ C8Case
    /\ last.parserThrew
    /\ selectedNode # NoNode
    /\ json # last.pre.json
    /\ contents # last.pre.contents

\* C9: Edit followed by Save with no field changed writes the JSON value
\* that was in the document store, for every node of the document whose
\* path leads to an object.
C9_EditSaveIdentity ==
    ( /\ last.op = "handleSave"
      /\ last.pre.selectedNode \in GraphNodes(last.pre.json)
      /\ ValueAt(PreDoc, PrePath, 1).t = "object"
      /\ last.pre.formValues = FormOf(last.pre.selectedNode) )
        => /\ last.saved
           /\ JSONparse(json).v = PreDoc

C10Keys == FormKeys(formValues) = ScalarKeys(TextOf(selectedNode))
\* C10 as stated: in every state the keys of the form values are the keys of
\* the selected node's keyed scalar rows; with no node selected the form
\* values are empty and edit mode is false.
C10_Original ==
    /\ C10Keys
    /\ selectedNode = NoNode => (formValues = <<>> /\ ~editMode)
\* C10 as amended: in every state the keys of the form values are the keys
\* of the selected node's keyed scalar rows; with no node selected the form
\* values are empty, and edit mode is false right after the deselection
\* (Edit clicked with no node selected sets it to true again).
C10_FormKeysMatchNode ==
    /\ C10Keys
    /\ selectedNode = NoNode => formValues = <<>>
    /\ last.op = "deselect" => ~editMode
C10_Witness ==
    /\ last.op = "deselect"
    /\ last.wasEditing
    /\ nSaves > 0

====
